---------------------------- MODULE Spec2Model ----------------------------
(***************************************************************************)
(* The two Gemini demonstration scripts (01_text_generation.py and         *)
(* 02_conversation.py) and their shared helper utils/api_config.py, as one *)
(* state machine.  A run executes one of the two scripts from the import   *)
(* of utils.api_config to the end of the process.  The client library and  *)
(* the remote service are the environment: every call into them either     *)
(* returns or raises, chosen nondeterministically.                         *)
(***************************************************************************)
EXTENDS Naturals, Sequences, FiniteSets

VARIABLES
    script,           \* which script the process runs
    dotenv,           \* GOOGLE_API_KEY in the .env file: {} (none) or {value}
    environ,          \* GOOGLE_API_KEY in os.environ:    {} (none) or {value}
    pc,               \* position of the interpreter in the script
    stdin,            \* lines still to come on standard input, then EOF
    user_input,       \* the variable user_input of the loop
    response,         \* the variable response ({} while unassigned)
    stdout,           \* messages printed so far
    configure_calls,  \* api keys genai.configure was called with
    configured,       \* "no", "ok" (configure returned) or "failed" (it raised)
    models,           \* number of GenerativeModel objects constructed
    chats,            \* number of chat sessions started
    history,          \* history of the current chat session (remote state)
    sent,             \* send_message calls made so far
    generated,        \* prompts passed to generate_content so far
    lines_read        \* lines input() has returned so far

vars == <<script, dotenv, environ, pc, stdin, user_input, response, stdout,
          configure_calls, configured, models, chats, history, sent,
          generated, lines_read>>

-----------------------------------------------------------------------------
(* Bounds and input alphabets *)

MaxLines == 3

TextScript == "01_text_generation.py"
ChatScript == "02_conversation.py"

\* Input lines are sequences of characters.
L_quit      == <<"q", "u", "i", "t">>
L_QUIT      == <<"Q", "U", "I", "T">>
L_lead      == <<" ", "q", "u", "i", "t">>
L_trail     == <<"q", "u", "i", "t", " ">>
L_empty     == << >>

Lines == {L_quit, L_QUIT, L_lead, L_trail, L_empty}

RECURSIVE SeqsUpTo(_, _)
SeqsUpTo(S, n) ==
    IF n = 0 THEN {<< >>}
    ELSE LET shorter == SeqsUpTo(S, n - 1)
         IN  shorter \cup {Append(s, x) : s \in {t \in shorter : Len(t) = n - 1}, x \in S}

\* Values of GOOGLE_API_KEY: unset, set to the empty string, set to a key.
KeyValues == {{}, {""}, {"AIza-key"}}

\* What a call to the service can hand back: an object that may be falsy and
\* whose text attribute holds text, is missing, or raises when read.
Responses == [truthy : BOOLEAN, text : {"value", "missing", "raises"}]

prompt == "Write a four-line poem about a curious puppy exploring a garden."

-----------------------------------------------------------------------------
(* Messages *)

MsgKeyMissing   == "API key not found. Set the GOOGLE_API_KEY environment variable."
MsgConfigured   == "API Key configured."
MsgConfigError  == "An unexpected error during configuration"
MsgSending      == "Sending prompt to Gemini..."
MsgHeader       == "Gemini's Response:"
MsgText         == "<response.text>"
MsgUnexpected   == "Received an unexpected response format."
MsgGenError     == "An error occurred during generation"
MsgStarting     == "Starting chat with Gemini. Type 'quit' to exit."
MsgEnding       == "Ending chat."
MsgThinking     == "Gemini thinking..."
MsgReply        == "Gemini: <response.text>"
MsgChatError    == "An error occurred"

-----------------------------------------------------------------------------
(* Pure helpers *)

\* str.lower() on one character of the alphabet in use
LowerChar(c) ==
    CASE c = "Q" -> "q"
      [] c = "U" -> "u"
      [] c = "I" -> "i"
      [] c = "T" -> "t"
      [] OTHER   -> c

lower(s) == [i \in 1..Len(s) |-> LowerChar(s[i])]

\* variant: the comparison without lower()
IsQuit_CaseSensitive(line) == line = L_quit

\* user_input.lower() == "quit"
IsQuit(line) == lower(line) = L_quit

\* variant: api_key is None
NotApiKey_NoneOnly(api_key) == api_key = {}

\* not api_key: os.getenv gave None or the empty string
NotApiKey(api_key) == api_key = {} \/ api_key = {""}

-----------------------------------------------------------------------------
Init ==
    /\ script \in {TextScript, ChatScript}
    /\ dotenv \in KeyValues
    /\ environ \in KeyValues
    /\ pc = "import"
    /\ stdin \in (IF script = ChatScript THEN SeqsUpTo(Lines, MaxLines) ELSE {<< >>})
    /\ user_input = << >>
    /\ response = {}
    /\ stdout = << >>
    /\ configure_calls = << >>
    /\ configured = "no"
    /\ models = 0
    /\ chats = 0
    /\ history = << >>
    /\ sent = << >>
    /\ generated = << >>
    /\ lines_read = << >>

-----------------------------------------------------------------------------
(* utils/api_config.py *)

\* variant: the script imports the helper and never calls api_config()
LoadDotenv_NoApiConfig ==
    /\ pc = "import"
    /\ environ' = IF environ = {} THEN dotenv ELSE environ
    /\ pc' = "model"
    /\ UNCHANGED <<script, dotenv, stdin, user_input, response, stdout,
                   configure_calls, configured, models, chats, history, sent,
                   generated, lines_read>>

\* load_dotenv() at import: a key of the .env file is put in os.environ
\* unless os.environ already has it (override is off by default).  The
\* script then calls api_config().
LoadDotenv ==
    /\ pc = "import"
    /\ environ' = IF environ = {} THEN dotenv ELSE environ
    /\ pc' = "api_config"
    /\ UNCHANGED <<script, dotenv, stdin, user_input, response, stdout,
                   configure_calls, configured, models, chats, history, sent,
                   generated, lines_read>>

\* variant: the except handlers print and do not call exit()
ApiConfig_NoExit ==
    /\ pc = "api_config"
    /\ LET api_key == environ IN
       IF NotApiKey(api_key)
       THEN /\ stdout' = Append(stdout, MsgKeyMissing)
            /\ pc' = "model"
            /\ UNCHANGED <<configure_calls, configured>>
       ELSE \E outcome \in {"ok", "ValueError", "Exception"} :
            /\ configure_calls' = configure_calls \o
                                    <<CHOOSE k \in api_key : TRUE>>
            /\ configured' = IF outcome = "ok" THEN "ok" ELSE "failed"
            /\ stdout' = Append(stdout, IF outcome = "ok" THEN MsgConfigured
                                        ELSE MsgConfigError)
            /\ pc' = "model"
    /\ UNCHANGED <<script, dotenv, environ, stdin, user_input, response,
                   models, chats, history, sent, generated, lines_read>>

ApiConfig ==
    /\ pc = "api_config"
    /\ LET api_key == environ IN
       IF NotApiKey(api_key)
       THEN \* raise ValueError; except ValueError: print(e); exit()
            /\ stdout' = Append(stdout, MsgKeyMissing)
            /\ pc' = "exited"
            /\ UNCHANGED <<configure_calls, configured>>
       ELSE \E outcome \in {"ok", "ValueError", "Exception"} :
            /\ configure_calls' = configure_calls \o
                                    <<CHOOSE k \in api_key : TRUE>>
            /\ CASE outcome = "ok" ->
                      /\ configured' = "ok"
                      /\ stdout' = Append(stdout, MsgConfigured)
                      /\ pc' = "model"
                 [] outcome = "ValueError" ->
                      /\ configured' = "failed"
                      /\ stdout' = Append(stdout, "<e>")
                      /\ pc' = "exited"
                 [] outcome = "Exception" ->
                      /\ configured' = "failed"
                      /\ stdout' = Append(stdout, MsgConfigError)
                      /\ pc' = "exited"
    /\ UNCHANGED <<script, dotenv, environ, stdin, user_input, response,
                   models, chats, history, sent, generated, lines_read>>

-----------------------------------------------------------------------------
(* Both scripts: model = genai.GenerativeModel(...), outside any try *)

BuildModel ==
    /\ pc = "model"
    /\ \E raised \in BOOLEAN :
         IF raised
         THEN /\ pc' = "aborted"
              /\ UNCHANGED models
         ELSE /\ models' = models + 1
              /\ pc' = IF script = TextScript THEN "generate" ELSE "start_chat"
    /\ UNCHANGED <<script, dotenv, environ, stdin, user_input, response, stdout,
                   configure_calls, configured, chats, history, sent,
                   generated, lines_read>>

-----------------------------------------------------------------------------
(* 01_text_generation.py *)

\* try: print; response = model.generate_content(prompt) ... except Exception
GenerateContent ==
    /\ pc = "generate"
    /\ generated' = Append(generated, prompt)
    /\ \/ \E r \in Responses :
            /\ response' = {r}
            /\ stdout' = Append(stdout, MsgSending)
            /\ pc' = "print_response"
       \/ /\ stdout' = stdout \o <<MsgSending, MsgGenError>>
          /\ pc' = "done"
          /\ UNCHANGED response
    /\ UNCHANGED <<script, dotenv, environ, stdin, user_input,
                   configure_calls, configured, models, chats, history, sent,
                   lines_read>>

\* print header; if response and hasattr(response, "text"): print(response.text)
\* else: print(unexpected); a text attribute that raises ends in the handler
PrintResponse ==
    /\ pc = "print_response"
    /\ LET r == CHOOSE x \in response : TRUE IN
       stdout' = stdout \o
          (IF r.truthy /\ r.text = "value"  THEN <<MsgHeader, MsgText>>
           ELSE IF r.truthy /\ r.text = "raises" THEN <<MsgHeader, MsgGenError>>
           ELSE <<MsgHeader, MsgUnexpected>>)
    /\ pc' = "done"
    /\ UNCHANGED <<script, dotenv, environ, stdin, user_input, response,
                   configure_calls, configured, models, chats, history, sent,
                   generated, lines_read>>

-----------------------------------------------------------------------------
(* 02_conversation.py *)

\* chat = model.start_chat(history=[]); print(banner)
StartChat ==
    /\ pc = "start_chat"
    /\ \E raised \in BOOLEAN :
         IF raised
         THEN /\ pc' = "aborted"
              /\ UNCHANGED <<chats, history, stdout>>
         ELSE /\ chats' = chats + 1
              /\ history' = << >>
              /\ stdout' = Append(stdout, MsgStarting)
              /\ pc' = "input"
    /\ UNCHANGED <<script, dotenv, environ, stdin, user_input, response,
                   configure_calls, configured, models, sent, generated,
                   lines_read>>

\* variant: the sentinel is tested after the request instead of before it
ReadInput_SendThenQuit ==
    /\ pc = "input"
    /\ IF stdin = << >>
       THEN /\ pc' = "aborted"
            /\ UNCHANGED <<stdin, user_input, lines_read, stdout, sent>>
       ELSE /\ user_input' = Head(stdin)
            /\ stdin' = Tail(stdin)
            /\ lines_read' = Append(lines_read, Head(stdin))
            /\ IF IsQuit(Head(stdin))
               THEN /\ sent' = Append(sent, [chat |-> chats, msg |-> Head(stdin),
                                             seen |-> history, ok |-> FALSE])
                    /\ stdout' = Append(stdout, MsgEnding)
                    /\ pc' = "done"
               ELSE /\ pc' = "send"
                    /\ UNCHANGED <<stdout, sent>>
    /\ UNCHANGED <<script, dotenv, environ, response, configure_calls,
                   configured, models, chats, history, generated>>

\* user_input = input("You: "); if user_input.lower() == "quit": print; break
ReadInput ==
    /\ pc = "input"
    /\ IF stdin = << >>
       THEN \* EOFError, outside the try
            /\ pc' = "aborted"
            /\ UNCHANGED <<stdin, user_input, lines_read, stdout>>
       ELSE /\ user_input' = Head(stdin)
            /\ stdin' = Tail(stdin)
            /\ lines_read' = Append(lines_read, Head(stdin))
            /\ IF IsQuit(Head(stdin))
               THEN /\ stdout' = Append(stdout, MsgEnding)
                    /\ pc' = "done"
               ELSE /\ pc' = "send"
                    /\ UNCHANGED stdout
    /\ UNCHANGED <<script, dotenv, environ, response, configure_calls,
                   configured, models, chats, history, sent, generated>>

\* The send_message call that returns a response.
SendReturns ==
    \E r \in Responses :
       /\ sent' = Append(sent, [chat |-> chats, msg |-> user_input,
                                seen |-> history, ok |-> TRUE])
       /\ history' = Append(history, user_input)
       /\ response' = {r}
       /\ stdout' = Append(stdout, MsgThinking)
       /\ pc' = "reply"
       /\ UNCHANGED chats

SendFrame ==
    UNCHANGED <<script, dotenv, environ, stdin, user_input, configure_calls,
                configured, models, generated, lines_read>>

\* variant: the handler sends the failed message once more
SendMessage_Retry ==
    /\ pc = "send"
    /\ \/ SendReturns
       \/ /\ sent' = sent \o
                     <<[chat |-> chats, msg |-> user_input, seen |-> history,
                        ok |-> FALSE],
                       [chat |-> chats, msg |-> user_input, seen |-> history,
                        ok |-> FALSE]>>
          /\ stdout' = stdout \o <<MsgThinking, MsgChatError>>
          /\ pc' = "input"
          /\ UNCHANGED <<history, response, chats>>
    /\ SendFrame

\* variant: the handler starts a fresh chat session
SendMessage_NewChat ==
    /\ pc = "send"
    /\ \/ SendReturns
       \/ /\ sent' = Append(sent, [chat |-> chats, msg |-> user_input,
                                   seen |-> history, ok |-> FALSE])
          /\ chats' = chats + 1
          /\ history' = << >>
          /\ stdout' = stdout \o <<MsgThinking, MsgChatError>>
          /\ pc' = "input"
          /\ UNCHANGED response
    /\ SendFrame

\* variant: the handler breaks out of the loop
SendMessage_Break ==
    /\ pc = "send"
    /\ \/ SendReturns
       \/ /\ sent' = Append(sent, [chat |-> chats, msg |-> user_input,
                                   seen |-> history, ok |-> FALSE])
          /\ stdout' = stdout \o <<MsgThinking, MsgChatError>>
          /\ pc' = "done"
          /\ UNCHANGED <<history, response, chats>>
    /\ SendFrame

\* try: print; response = chat.send_message(user_input) ... except Exception
SendMessage ==
    /\ pc = "send"
    /\ \/ SendReturns
       \/ /\ sent' = Append(sent, [chat |-> chats, msg |-> user_input,
                                   seen |-> history, ok |-> FALSE])
          /\ stdout' = stdout \o <<MsgThinking, MsgChatError>>
          /\ pc' = "input"
          /\ UNCHANGED <<history, response, chats>>
    /\ SendFrame

\* print(f"\nGemini: {response.text}\n"), still inside the try
PrintReply ==
    /\ pc = "reply"
    /\ LET r == CHOOSE x \in response : TRUE IN
       stdout' = Append(stdout, IF r.text = "value" THEN MsgReply ELSE MsgChatError)
    /\ pc' = "input"
    /\ UNCHANGED <<script, dotenv, environ, stdin, user_input, response,
                   configure_calls, configured, models, chats, history, sent,
                   generated, lines_read>>

-----------------------------------------------------------------------------
Next ==
    \/ LoadDotenv
    \/ ApiConfig
    \/ BuildModel
    \/ GenerateContent
    \/ PrintResponse
    \/ StartChat
    \/ ReadInput
    \/ SendMessage
    \/ PrintReply

Spec == Init /\ [][Next]_vars

\* Every call the scripts make is a blocking call that returns or raises.
FairSpec == Spec /\ WF_vars(Next)

TypeOK ==
    /\ script \in {TextScript, ChatScript}
    /\ pc \in {"import", "api_config", "model", "generate", "print_response",
               "start_chat", "input", "send", "reply", "done", "exited",
               "aborted"}
    /\ environ \in KeyValues
    /\ configured \in {"no", "ok", "failed"}
    /\ response \in {{}} \cup {{r} : r \in Responses}

-----------------------------------------------------------------------------
(* Vocabulary of the properties, stated without the operators of the model *)

Last(q) == q[Len(q)]

Terminated == pc \in {"done", "exited", "aborted"}

\* The spellings of the sentinel: "quit" in any mix of upper and lower case.
QuitForms ==
    {<<a, b, c, d>> : a \in {"q", "Q"}, b \in {"u", "U"},
                      c \in {"i", "I"}, d \in {"t", "T"}}

NonQuitLines == SelectSeq(lines_read, LAMBDA l : l \notin QuitForms)

SentinelRead == lines_read # << >> /\ Last(lines_read) \in QuitForms

NothingStarted ==
    /\ models = 0
    /\ chats = 0
    /\ lines_read = << >>
    /\ sent = << >>
    /\ generated = << >>

\* What the remote session accumulated over the first k send_message calls.
RECURSIVE Accumulated(_)
Accumulated(k) ==
    IF k = 0 THEN << >>
    ELSE IF sent[k].ok THEN Append(Accumulated(k - 1), sent[k].msg)
         ELSE Accumulated(k - 1)

Outcomes == {MsgText, MsgUnexpected, MsgGenError}

OutcomesPrinted == Cardinality({i \in DOMAIN stdout : stdout[i] \in Outcomes})

-----------------------------------------------------------------------------
\* C1: with GOOGLE_API_KEY absent when api_config() reads it, the process
\* prints the missing-key message and exits; no model, no chat session, no
\* line read from standard input and no request in that run.
C1_MissingKeyHalts ==
    (environ = {} /\ pc # "import") =>
        /\ NothingStarted
        /\ configure_calls = << >>
        /\ pc # "api_config" => (pc = "exited" /\ stdout = <<MsgKeyMissing>>)

C1_Witness ==
    /\ environ = {} /\ pc = "exited" /\ script = ChatScript /\ Len(stdin) >= 2

\* C2: once the sentinel has been read the loop has ended, and the number of
\* send_message calls equals the number of non-quit lines read before it; the
\* loop of the conversation script ends (normally) in no other way.
C2_QuitSendsNothing ==
    (script = ChatScript /\ (SentinelRead \/ pc = "done")) =>
        /\ SentinelRead
        /\ pc = "done"
        /\ Len(sent) = Len(NonQuitLines)
        /\ Len(NonQuitLines) = Len(lines_read) - 1

C2_Witness ==
    /\ pc = "done" /\ script = ChatScript /\ Len(sent) >= 2 /\ SentinelRead

\* C3 (as claimed): once credentials are configured, no failure ends the
\* process with an uncaught exception.
C3_AllFailuresCaught ==
    configured = "ok" => pc # "aborted"

\* C4: inside the loop every turn, failed or not, leads back to input();
\* only reading the sentinel leaves the loop normally; and when the input
\* still to come holds the sentinel, the process prints "Ending chat." and
\* terminates.
C4_LoopUntilQuit ==
    /\ [][(pc = "send" => pc' \in {"reply", "input"})
          /\ (pc = "reply" => pc' = "input")]_vars
    /\ [][(pc \in {"input", "send", "reply"} /\ pc' = "done") =>
             (pc = "input" /\ user_input' \in QuitForms
              /\ stdout' = Append(stdout, MsgEnding))]_vars
    /\ (pc = "input" /\ \E i \in DOMAIN stdin : stdin[i] \in QuitForms)
          ~> (pc = "done" /\ Last(stdout) = MsgEnding)

C4_Witness ==
    /\ pc = "done" /\ script = ChatScript
    /\ \E i \in DOMAIN sent : ~sent[i].ok
    /\ \E i \in DOMAIN sent : sent[i].ok
    /\ Last(stdout) = MsgEnding

\* C5: the send_message calls are exactly the non-quit lines read, one call
\* per line, in input order (the line just read is sent by the next step),
\* failed calls included; generate_content is called at most once.
C5_NoRetry ==
    LET n == Len(NonQuitLines) - (IF pc = "send" THEN 1 ELSE 0) IN
    /\ Len(sent) = n
    /\ \A i \in 1..n : sent[i].msg = NonQuitLines[i]
    /\ Len(generated) <= 1
    /\ script = TextScript => sent = << >>
    /\ script = ChatScript => generated = << >>

C5_Witness ==
    /\ Len(sent) >= 2 /\ ~sent[1].ok /\ sent[2].msg = sent[1].msg

\* C6 (as claimed): the single-prompt script, once credentials are
\* configured, ends having sent exactly one prompt and printed exactly one of
\* the three outcomes.
C6_OnePromptOneOutcome ==
    (script = TextScript /\ configured = "ok" /\ Terminated) =>
        /\ pc = "done"
        /\ generated = <<prompt>>
        /\ OutcomesPrinted = 1

\* C7: genai.configure is only called with a non-empty key; a key set to the
\* empty string ends like an absent one: message, exit, no configure call.
C7_KeyNonEmpty ==
    /\ \A i \in DOMAIN configure_calls : configure_calls[i] # ""
    /\ (environ = {""} /\ pc \notin {"import", "api_config"}) =>
          /\ pc = "exited"
          /\ stdout = <<MsgKeyMissing>>
          /\ configure_calls = << >>
          /\ configured = "no"
          /\ NothingStarted

C7_Witness ==
    /\ environ = {""} /\ pc = "exited" /\ stdout = <<MsgKeyMissing>>

C9_OneSession ==
    /\ chats <= 1
    /\ (pc \in {"input", "send", "reply"} \/ lines_read # << >>) => chats = 1
    /\ \A n \in DOMAIN sent :
          /\ sent[n].chat = 1
          /\ sent[n].seen = Accumulated(n - 1)
    /\ chats = 1 => history = Accumulated(Len(sent))

C9_Witness ==
    /\ Len(sent) >= 3 /\ sent[1].ok /\ ~sent[2].ok
    /\ sent[3].seen = <<sent[1].msg>>

\* C10: a line ends the loop iff it is a spelling of "quit" up to case; every
\* other line (the empty line, " quit", "quit ") is passed unchanged to
\* send_message.
C10_SentinelExact ==
    \A i \in DOMAIN lines_read :
        LET l == lines_read[i] IN
        /\ l \in QuitForms <=> (i = Len(lines_read) /\ pc = "done")
        /\ l \notin QuitForms =>
              \/ i <= Len(sent) /\ sent[i].msg = l
              \/ i = Len(sent) + 1 /\ pc = "send" /\ user_input = l

C10_Witness ==
    /\ script = ChatScript /\ pc = "done" /\ Len(sent) = 2
    /\ Last(lines_read) = L_QUIT
    /\ sent[1].msg = L_trail /\ sent[2].msg = L_empty

=============================================================================
